---- MODULE Spec2Model ----
(***************************************************************************)
(* Model of multiSDFtoSMILES (src/app.js, the second, complete version of  *)
(* the script that starts at line 272): the SDF splitter and record        *)
(* parser, the SD tag extractor, the column union and row projection, the  *)
(* SMILES conversion with its fallbacks, the CSV encoder, and the          *)
(* select / parse / download event handlers with their await points.       *)
(*                                                                         *)
(* A JavaScript string is a sequence of tokens.  A token is one character  *)
(* the code looks at (" ", "\n", "\r", ">", "<", ",", a double quote) or a *)
(* run of ordinary characters the code only ever handles as a whole        *)
(* ("$$$$", "M", "END", "RecordIndex", "a", ...).                          *)
(***************************************************************************)
EXTENDS Integers, Sequences, FiniteSets, TLC

VARIABLES
    pc,               \* which step of a function-level specification has run
    arg,              \* the input of a function-level specification
    ret,              \* the output of a function-level specification
    currentFile,      \* app.js:289
    parsedRows,       \* app.js:290
    parsedColumns,    \* app.js:291
    downloadDisabled, \* downloadBtn.disabled
    status,           \* statusEl: <<kind, isError>>
    preview,          \* rows shown in #previewTable
    windowOCL,        \* window.OCL is loaded
    fallbackChecked,  \* fallbackCheckbox.checked
    handlers,         \* parse-click handlers suspended at an await
    downloaded        \* the last CSV file handed to the browser, if any

vars == <<pc, arg, ret, currentFile, parsedRows, parsedColumns, downloadDisabled,
          status, preview, windowOCL, fallbackChecked, handlers, downloaded>>

uiVars == <<currentFile, parsedRows, parsedColumns, downloadDisabled,
            status, preview, windowOCL, fallbackChecked, handlers, downloaded>>

-----------------------------------------------------------------------------
(* Strings *)

NL == "\n"
CR == "\r"
DQ == "\""

\* String.prototype.trim and \s: white space and line terminators
IsWs(c) == c \in {" ", NL, CR}

RECURSIVE TrimStart(_)
TrimStart(s) ==
    IF s # <<>> /\ IsWs(Head(s)) THEN TrimStart(Tail(s)) ELSE s

RECURSIVE TrimEnd(_)
TrimEnd(s) ==
    IF s # <<>> /\ IsWs(s[Len(s)]) THEN TrimEnd(SubSeq(s, 1, Len(s) - 1)) ELSE s

Trim(s) == TrimEnd(TrimStart(s))

\* the index of the first token c of s at or after position from, 0 if none
RECURSIVE IndexOf(_, _, _)
IndexOf(s, c, from) ==
    IF from > Len(s) THEN 0
    ELSE IF s[from] = c THEN from
    ELSE IndexOf(s, c, from + 1)

\* String.prototype.split("\n")
RECURSIVE Split(_)
Split(s) ==
    LET k == IndexOf(s, NL, 1)
    IN  IF k = 0 THEN <<s>>
        ELSE <<SubSeq(s, 1, k - 1)>> \o Split(SubSeq(s, k + 1, Len(s)))

\* Array.prototype.join(sep)
RECURSIVE JoinWith(_, _)
JoinWith(ls, sep) ==
    IF ls = <<>> THEN <<>>
    ELSE IF Len(ls) = 1 THEN ls[1]
    ELSE ls[1] \o sep \o JoinWith(Tail(ls), sep)

Join(ls) == JoinWith(ls, <<NL>>)

\* input.replace(/\r\n/g, "\n").replace(/\r/g, "\n")
RECURSIVE Normalize(_)
Normalize(s) ==
    IF s = <<>> THEN <<>>
    ELSE IF Head(s) = CR
         THEN IF Len(s) >= 2 /\ s[2] = NL
              THEN <<NL>> \o Normalize(SubSeq(s, 3, Len(s)))
              ELSE <<NL>> \o Normalize(Tail(s))
         ELSE <<Head(s)>> \o Normalize(Tail(s))

-----------------------------------------------------------------------------
(* Objects used as string-keyed maps: the own properties as <<key, value>>  *)
(* pairs in insertion order, over Object.prototype.                         *)

\* a property name with a setter on Object.prototype: assigning a string to
\* it creates no own property
ProtoName == <<"__proto__">>

\* names every object inherits from Object.prototype (two of them)
InheritedNames == {<<"constructor">>, ProtoName}

ObjKeys(o) == [i \in 1..Len(o) |-> o[i][1]]

HasOwn(o, k) == \E i \in 1..Len(o) : o[i][1] = k

OwnValue(o, k) == o[CHOOSE i \in 1..Len(o) : o[i][1] = k][2]

\* o[k] = v
ObjSet(o, k, v) ==
    IF k = ProtoName THEN o
    ELSE IF HasOwn(o, k)
         THEN [i \in 1..Len(o) |-> IF o[i][1] = k THEN <<k, v>> ELSE o[i]]
         ELSE Append(o, <<k, v>>)

\* JavaScript values held by a row
StrVal(s) == [t |-> "string", s |-> s, n |-> 0]
NumVal(n) == [t |-> "number", s |-> <<>>, n |-> n]
Undefined == [t |-> "undefined", s |-> <<>>, n |-> 0]
InheritedVal == [t |-> "object", s |-> <<"[inherited]">>, n |-> 0]

\* o[k]
ObjGet(o, k) ==
    IF HasOwn(o, k) THEN StrVal(OwnValue(o, k))
    ELSE IF k \in InheritedNames THEN InheritedVal
    ELSE Undefined

\* x ?? ""
OrEmpty(x) == IF x = Undefined THEN StrVal(<<>>) ELSE x

-----------------------------------------------------------------------------
(* parseSdTags *)

NoMatch == [ok |-> FALSE, name |-> <<>>]

\* the index of the first non-white-space token of s at or after from
RECURSIVE SkipWs(_, _)
SkipWs(s, from) ==
    IF from <= Len(s) /\ IsWs(s[from]) THEN SkipWs(s, from + 1) ELSE from

\* line.match(/^>\s*<([^>]+)>/): the capture group
HeaderMatch(line) ==
    IF line = <<>> \/ line[1] # ">" THEN NoMatch
    ELSE LET p == SkipWs(line, 2)
         IN  IF p > Len(line) \/ line[p] # "<" THEN NoMatch
             ELSE LET q == IndexOf(line, ">", p + 1)
                  IN  IF q < p + 2 THEN NoMatch
                      ELSE [ok |-> TRUE, name |-> SubSeq(line, p + 1, q - 1)]

\* ValueLoop with the blank-line test left out: only ">" or the end of input
\* ends a value
RECURSIVE ValueLoopNoBlankStop(_, _, _)
ValueLoopNoBlankStop(lines, i, valueLines) ==
    IF i > Len(lines) THEN <<valueLines, i>>
    ELSE LET v == lines[i]
         IN  IF v # <<>> /\ v[1] = ">" THEN <<valueLines, i>>
             ELSE ValueLoopNoBlankStop(lines, i + 1, Append(valueLines, v))

\* the inner loop: <<value lines, next i>>
RECURSIVE ValueLoop(_, _, _)
ValueLoop(lines, i, valueLines) ==
    IF i > Len(lines) THEN <<valueLines, i>>
    ELSE LET v == lines[i]
         IN  IF v # <<>> /\ v[1] = ">" THEN <<valueLines, i>>
             ELSE IF Trim(v) = <<>> THEN <<valueLines, i + 1>>
             ELSE ValueLoop(lines, i + 1, Append(valueLines, v))

RECURSIVE TagLoop(_, _, _)
TagLoop(lines, i, tags) ==
    IF i > Len(lines) THEN tags
    ELSE LET match == HeaderMatch(lines[i])
         IN  IF ~match.ok THEN TagLoop(lines, i + 1, tags)
             ELSE LET key == Trim(match.name)
                      vl == ValueLoop(lines, i + 1, <<>>)
                      value == Trim(Join(vl[1]))
                  IN  TagLoop(lines, vl[2],
                              IF value # <<>> THEN ObjSet(tags, key, value) ELSE tags)

parseSdTags(lines) == TagLoop(lines, 1, <<>>)

-----------------------------------------------------------------------------
(* splitSdfBlocks and parseSdf *)

Delimiter == <<"$$$$">>

\* SplitLoop without the flush at the end of input: the text after the last
\* delimiter is lost
RECURSIVE SplitLoopNoTail(_, _, _, _)
SplitLoopNoTail(lines, i, current, blocks) ==
    IF i > Len(lines) THEN blocks
    ELSE IF Trim(lines[i]) = Delimiter
         THEN LET chunk == Trim(Join(current))
              IN  SplitLoopNoTail(lines, i + 1, <<>>,
                                  IF chunk # <<>> THEN Append(blocks, chunk) ELSE blocks)
         ELSE SplitLoopNoTail(lines, i + 1, Append(current, lines[i]), blocks)

RECURSIVE SplitLoop(_, _, _, _)
SplitLoop(lines, i, current, blocks) ==
    IF i > Len(lines)
    THEN LET tail == Trim(Join(current))
         IN  IF tail # <<>> THEN Append(blocks, tail) ELSE blocks
    ELSE IF Trim(lines[i]) = Delimiter
         THEN LET chunk == Trim(Join(current))
              IN  SplitLoop(lines, i + 1, <<>>,
                            IF chunk # <<>> THEN Append(blocks, chunk) ELSE blocks)
         ELSE SplitLoop(lines, i + 1, Append(current, lines[i]), blocks)

splitSdfBlocks(normalized) == SplitLoop(Split(normalized), 1, <<>>, <<>>)

\* /^M\s+END$/i.test(s)
IsMEnd(s) ==
    /\ Len(s) >= 3
    /\ s[1] \in {"M", "m"}
    /\ s[Len(s)] \in {"END", "end", "End"}
    /\ \A j \in 2..(Len(s) - 1) : IsWs(s[j])

\* the first i with /^M\s+END$/i.test(lines[i].trim()), 0 (for -1) if none
RECURSIVE FindMEnd(_, _)
FindMEnd(lines, i) ==
    IF i > Len(lines) THEN 0
    ELSE IF IsMEnd(Trim(lines[i])) THEN i
    ELSE FindMEnd(lines, i + 1)

RECURSIVE ChunkLoop(_, _, _)
ChunkLoop(chunks, c, out) ==
    IF c > Len(chunks) THEN out
    ELSE LET chunk == Trim(chunks[c])
         IN  IF chunk = <<>> THEN ChunkLoop(chunks, c + 1, out)
             ELSE LET lines == Split(chunk)
                      mEndIndex == FindMEnd(lines, 1)
                  IN  IF mEndIndex = 0 THEN ChunkLoop(chunks, c + 1, out)
                      ELSE LET molblockLines == SubSeq(lines, 1, mEndIndex)
                               dataLines == SubSeq(lines, mEndIndex + 1, Len(lines))
                           IN  ChunkLoop(chunks, c + 1,
                                   Append(out,
                                       [name |-> Trim(molblockLines[1]),
                                        molblock |-> Join(molblockLines) \o <<NL>>,
                                        tags |-> parseSdTags(dataLines)]))

parseSdf(input) == ChunkLoop(splitSdfBlocks(Normalize(input)), 1, <<>>)

-----------------------------------------------------------------------------
(* molfileToSmiles.  What OpenChemLib does with one molfile is an input:    *)
(* each call throws, returns nothing, or returns a value.                   *)

EngineBehaviours ==
    [fromMolfile : {"mol", "null", "throws"},
     sdFileParser : {"mol", "none", "throws"},
     toSmiles : {"string", "empty", "throws"},
     isomeric : {"string", "empty", "throws"},
     kekulized : {"string", "empty", "throws"},
     smarts : {"string", "empty", "throws"}]

\* the string a notation method returns
Generated(method, outcome) == IF outcome = "string" THEN <<method>> ELSE <<>>

\* shortError(err), for an error whose message is msg
shortError(msg) == IF msg = "" THEN "unknown_error" ELSE msg

SmilesResult(smiles, st, error, calls) ==
    [smiles |-> smiles, status |-> st, error |-> error, calls |-> calls]

\* the fallbacks with the kekulized form tried before the isomeric form
NotationOfKekulizedFirst(ocl, calls) ==
    LET c1 == Append(calls, "toSmiles")
        c2 == Append(c1, "toIsomericSmiles(kekulizedOutput)")
        c3 == Append(c2, "toIsomericSmiles")
        c4 == Append(c3, "toIsomericSmiles(createSmarts)")
        toSmilesError == shortError("toSmiles failed")
    IN  IF ocl.toSmiles # "throws"
        THEN SmilesResult(Generated("toSmiles", ocl.toSmiles), "OK", "", c1)
        ELSE IF ocl.kekulized = "string"
        THEN SmilesResult(Generated("kekulized", ocl.kekulized), "KEKULIZED_OK", "", c2)
        ELSE IF ocl.isomeric = "string"
        THEN SmilesResult(Generated("toIsomericSmiles", ocl.isomeric), "ISOMERIC_OK", "", c3)
        ELSE IF ocl.smarts = "string"
        THEN SmilesResult(Generated("smarts", ocl.smarts), "SMARTS_FALLBACK", "", c4)
        ELSE SmilesResult(<<>>, "SMILES_FAILED",
                          IF toSmilesError # "" THEN toSmilesError ELSE "SMILES_FAILED", c4)

\* app.js:646-664, with the engine calls made so far
NotationOf(ocl, calls) ==
    LET c1 == Append(calls, "toSmiles")
        c2 == Append(c1, "toIsomericSmiles")
        c3 == Append(c2, "toIsomericSmiles(kekulizedOutput)")
        c4 == Append(c3, "toIsomericSmiles(createSmarts)")
        toSmilesError == shortError("toSmiles failed")
    IN  IF ocl.toSmiles # "throws"
        THEN SmilesResult(Generated("toSmiles", ocl.toSmiles), "OK", "", c1)
        ELSE IF ocl.isomeric = "string"
        THEN SmilesResult(Generated("toIsomericSmiles", ocl.isomeric), "ISOMERIC_OK", "", c2)
        ELSE IF ocl.kekulized = "string"
        THEN SmilesResult(Generated("kekulized", ocl.kekulized), "KEKULIZED_OK", "", c3)
        ELSE IF ocl.smarts = "string"
        THEN SmilesResult(Generated("smarts", ocl.smarts), "SMARTS_FALLBACK", "", c4)
        ELSE SmilesResult(<<>>, "SMILES_FAILED",
                          IF toSmilesError # "" THEN toSmilesError ELSE "SMILES_FAILED", c4)

\* molfileToSmiles with the engine calls it made
SmilesRun(molfile, hasSmilesEngine, ocl) ==
    IF ~hasSmilesEngine
    THEN SmilesResult(<<>>, "ENGINE_UNAVAILABLE", "ENGINE_UNAVAILABLE", <<>>)
    ELSE LET parseError1 == IF ocl.fromMolfile = "throws"
                            THEN shortError("fromMolfile failed") ELSE ""
             mol1 == ocl.fromMolfile = "mol"
             calls1 == <<"fromMolfile">>
             calls2 == IF mol1 THEN calls1 ELSE Append(calls1, "SDFileParser")
             parseError == IF ~mol1 /\ ocl.sdFileParser = "throws" /\ parseError1 = ""
                           THEN shortError("SDFileParser failed") ELSE parseError1
             mol == mol1 \/ ocl.sdFileParser = "mol"
         IN  IF ~mol
             THEN SmilesResult(<<>>, "PARSE_FAILED",
                               IF parseError # "" THEN parseError ELSE "PARSE_FAILED", calls2)
             ELSE NotationOf(ocl, calls2)

molfileToSmiles(molfile, hasSmilesEngine, ocl) ==
    LET r == SmilesRun(molfile, hasSmilesEngine, ocl)
    IN  [smiles |-> r.smiles, status |-> r.status, error |-> r.error]

\* every result the engine can give for a record
SmilesResultsWithEngine == {molfileToSmiles(<<>>, TRUE, o) : o \in EngineBehaviours}

SmilesResultsWithoutEngine == {molfileToSmiles(<<>>, FALSE, o) : o \in EngineBehaviours}

SmilesResults(hasSmilesEngine) ==
    IF hasSmilesEngine THEN SmilesResultsWithEngine ELSE SmilesResultsWithoutEngine

-----------------------------------------------------------------------------
(* The column union and the rows (app.js:334-356) *)

\* the primary collation weight of a token in the default locale; the
\* precomposed and the decomposed spelling of one letter are canonically
\* equivalent and collate as equal
CollationWeight(tok) ==
    CASE tok = " " -> 0
      [] tok = "__proto__" -> 1
      [] tok = "a" -> 2
      [] tok = "b" -> 3
      [] tok = "constructor" -> 4
      [] tok = "e-acute(U+00E9)" -> 5
      [] tok = "e-acute(U+0065,U+0301)" -> 5
      [] tok = "RecordIndex" -> 6
      [] tok = "SMILES" -> 7
      [] OTHER -> 8

\* a.localeCompare(b): negative, zero or positive
RECURSIVE localeCompare(_, _)
localeCompare(a, b) ==
    IF a = <<>> /\ b = <<>> THEN 0
    ELSE IF a = <<>> THEN -1
    ELSE IF b = <<>> THEN 1
    ELSE IF CollationWeight(Head(a)) < CollationWeight(Head(b)) THEN -1
    ELSE IF CollationWeight(Head(a)) > CollationWeight(Head(b)) THEN 1
    ELSE localeCompare(Tail(a), Tail(b))

\* Set.prototype.add over a list in insertion order
SetAdd(list, x) ==
    IF \E i \in 1..Len(list) : list[i] = x THEN list ELSE Append(list, x)

RECURSIVE AddAll(_, _)
AddAll(list, xs) == IF xs = <<>> THEN list ELSE AddAll(SetAdd(list, Head(xs)), Tail(xs))

\* the tagSet loop: the keys of all records in first-seen order
RECURSIVE TagSetOf(_, _)
TagSetOf(records, list) ==
    IF records = <<>> THEN list
    ELSE TagSetOf(Tail(records), AddAll(list, ObjKeys(Head(records).tags)))

\* Array.prototype.sort with (a, b) => a.localeCompare(b): a stable sort
RECURSIVE InsertStable(_, _)
InsertStable(sorted, x) ==
    IF sorted = <<>> THEN <<x>>
    ELSE IF localeCompare(x, sorted[Len(sorted)]) >= 0 THEN Append(sorted, x)
    ELSE Append(InsertStable(SubSeq(sorted, 1, Len(sorted) - 1), x), sorted[Len(sorted)])

RECURSIVE SortStable(_, _)
SortStable(list, sorted) ==
    IF list = <<>> THEN sorted ELSE SortStable(Tail(list), InsertStable(sorted, Head(list)))

tagColumnsOf(records) == SortStable(TagSetOf(records, <<>>), <<>>)

FixedColumns == <<<<"RecordIndex">>, <<"MoleculeName">>, <<"SMILES">>, <<"SMILES_Status">>>>

columnsOf(tagColumns) == FixedColumns \o tagColumns

\* row[k] = v on an object literal
RowSet(row, k, v) == [x \in DOMAIN row \cup {k} |-> IF x = k THEN v ELSE row[x]]

\* for (const tag of tagColumns) row[tag] = rec.tags[tag] ?? ""
RECURSIVE FillTags(_, _, _)
FillTags(row, rec, tagColumns) ==
    IF tagColumns = <<>> THEN row
    ELSE FillTags(RowSet(row, Head(tagColumns), OrEmpty(ObjGet(rec.tags, Head(tagColumns)))),
                  rec, Tail(tagColumns))

\* the callback of records.map, idx counted from 0
rowOf(rec, idx, tagColumns, smilesResult) ==
    LET row == [x \in {<<"RecordIndex">>, <<"MoleculeName">>, <<"SMILES">>, <<"SMILES_Status">>} |->
                   IF x = <<"RecordIndex">> THEN NumVal(idx + 1)
                   ELSE IF x = <<"MoleculeName">> THEN StrVal(rec.name)
                   ELSE IF x = <<"SMILES">> THEN StrVal(smilesResult.smiles)
                   ELSE StrVal(<<smilesResult.status>>)]
    IN  FillTags(row, rec, tagColumns)

\* rows = records.map(...), results[i] being what molfileToSmiles returns for record i
rowsOf(records, tagColumns, results) ==
    [i \in 1..Len(records) |-> rowOf(records[i], i - 1, tagColumns, results[i])]

-----------------------------------------------------------------------------
(* buildCsv and csvEscape *)

DigitToken(d) == <<"0", "1", "2", "3", "4", "5", "6", "7", "8", "9">>[d + 1]

RECURSIVE Digits(_)
Digits(n) == IF n < 10 THEN <<DigitToken(n)>> ELSE Digits(n \div 10) \o <<DigitToken(n % 10)>>

\* String(value)
StringOf(v) ==
    IF v.t = "string" THEN v.s
    ELSE IF v.t = "number" THEN Digits(v.n)
    ELSE IF v.t = "undefined" THEN <<"undefined">>
    ELSE <<"function", " ", "() { [native code] }">>

\* the replace left out: quotes inside a quoted field are not doubled
DoubleQuotesForgotten(s) == s

\* str.replace(/"/g, '""')
RECURSIVE DoubleQuotes(_)
DoubleQuotes(s) ==
    IF s = <<>> THEN <<>>
    ELSE IF Head(s) = DQ THEN <<DQ, DQ>> \o DoubleQuotes(Tail(s))
    ELSE <<Head(s)>> \o DoubleQuotes(Tail(s))

\* /[,"\n]/.test(str)
NeedsQuotes(str) == \E i \in 1..Len(str) : str[i] \in {",", DQ, NL}

csvEscape(value) ==
    LET str == StringOf(value)
    IN  IF NeedsQuotes(str) THEN <<DQ>> \o DoubleQuotes(str) \o <<DQ>> ELSE str

\* row[c] on a row object
RowGet(row, c) ==
    IF c \in DOMAIN row THEN row[c]
    ELSE IF c \in InheritedNames THEN InheritedVal
    ELSE Undefined

buildCsv(rows, columns) ==
    LET header == JoinWith([i \in 1..Len(columns) |-> csvEscape(StrVal(columns[i]))], <<",">>)
        line(row) == JoinWith([i \in 1..Len(columns) |->
                                  csvEscape(OrEmpty(RowGet(row, columns[i])))], <<",">>)
        body == JoinWith([r \in 1..Len(rows) |-> line(rows[r])], <<NL>>)
    IN  header \o <<NL>> \o body \o <<NL>>

-----------------------------------------------------------------------------
(* The page as loaded: no file, nothing parsed, download disabled.          *)

NoFile == "null"

UiInit ==
    /\ currentFile = NoFile
    /\ parsedRows = <<>>
    /\ parsedColumns = <<>>
    /\ downloadDisabled = TRUE
    /\ status = <<"initial", FALSE>>
    /\ preview = <<>>
    /\ windowOCL \in BOOLEAN
    /\ fallbackChecked \in BOOLEAN
    /\ handlers = <<>>
    /\ downloaded = <<>>

\* the function-level specifications leave the page alone
PageIdle ==
    /\ currentFile = NoFile
    /\ parsedRows = <<>>
    /\ parsedColumns = <<>>
    /\ downloadDisabled = TRUE
    /\ status = <<"initial", FALSE>>
    /\ preview = <<>>
    /\ windowOCL = FALSE
    /\ fallbackChecked = FALSE
    /\ handlers = <<>>
    /\ downloaded = <<>>

\* all sequences over S of length at most n
SeqsUpTo(S, n) == UNION {[1..k -> S] : k \in 0..n}

-----------------------------------------------------------------------------
(* SpecTags: parseSdTags applied to every sequence of at most MaxTagLines   *)
(* lines drawn from TagLines.                                               *)

MaxTagLines == 4

TagLines ==
    { <<>>,
      <<" ">>,
      <<"v">>,
      <<" ", "w", " ">>,
      <<">", "<", "a", ">">>,
      <<">", " ", "<", " ", "b", " ", ">", "x">>,
      <<">", "<", "__proto__", ">">>,
      <<">", "<", ">">>,
      <<">", "z">> }

TagsInit ==
    /\ pc = "init"
    /\ arg \in SeqsUpTo(TagLines, MaxTagLines)
    /\ ret = <<>>
    /\ PageIdle

TagsApply ==
    /\ pc = "init"
    /\ pc' = "done"
    /\ ret' = parseSdTags(arg)
    /\ UNCHANGED <<arg, uiVars>>

TagsNext == TagsApply

SpecTags == TagsInit /\ [][TagsNext]_vars

\* the header pattern, stated on its own: ">", white space, "<", a non-empty
\* name without ">", ">"
IsHeaderLine(l) ==
    \E p \in 2..Len(l) : \E q \in (p + 2)..Len(l) :
        /\ l[1] = ">"
        /\ \A j \in 2..(p - 1) : IsWs(l[j])
        /\ l[p] = "<"
        /\ l[q] = ">"
        /\ \A j \in (p + 1)..(q - 1) : l[j] # ">"

RawNameOf(l) ==
    LET p == CHOOSE p \in 2..Len(l) : l[p] = "<" /\ \A j \in 2..(p - 1) : l[j] # "<"
        q == CHOOSE q \in (p + 1)..Len(l) : l[q] = ">" /\ \A j \in (p + 1)..(q - 1) : l[j] # ">"
    IN  SubSeq(l, p + 1, q - 1)

\* a line that ends a value: it starts with ">" or is all white space
EndsValue(l) == (l # <<>> /\ l[1] = ">") \/ Trim(l) = <<>>

\* the index of the line that ends the value opened at header i (Len + 1: end of input)
ValueStop(lines, i) ==
    LET S == {j \in (i + 1)..Len(lines) : EndsValue(lines[j])}
    IN  IF S = {} THEN Len(lines) + 1 ELSE CHOOSE j \in S : \A k \in S : j <= k

TagValueAt(lines, i) == Trim(Join(SubSeq(lines, i + 1, ValueStop(lines, i) - 1)))

TagNameAt(lines, i) == Trim(RawNameOf(lines[i]))

\* the headers that record name k: header lines with that trimmed name and a
\* non-empty value
Recording(lines, k) ==
    {i \in 1..Len(lines) :
        IsHeaderLine(lines[i]) /\ TagNameAt(lines, i) = k /\ TagValueAt(lines, i) # <<>>}

MaxOf(S) == CHOOSE x \in S : \A y \in S : y <= x

TagNamesIn(lines) ==
    {TagNameAt(lines, i) : i \in {j \in 1..Len(lines) : IsHeaderLine(lines[j])}}

\* C8: parseSdTags records exactly the tags opened by header lines whose value
\* (the lines after the header up to the first line that starts with ">" or is
\* all white space, or the end of input, joined by newline and trimmed) is
\* non-empty, each under its trimmed name with that value (the last header of a
\* name decides); a header with an empty value records nothing, lines that are
\* no headers record nothing, and no name is recorded twice.  (The one name
\* that is never recorded is __proto__, which the claim's "only if" allows.)
C8_ParseSdTags ==
    pc = "done" =>
        /\ \A i, j \in 1..Len(ret) : ret[i][1] = ret[j][1] => i = j
        /\ \A i \in 1..Len(ret) :
              LET k == ret[i][1]
              IN  /\ Recording(arg, k) # {}
                  /\ ret[i][2] = TagValueAt(arg, MaxOf(Recording(arg, k)))
                  /\ ret[i][2] # <<>>
        /\ \A k \in TagNamesIn(arg) :
              (Recording(arg, k) # {} /\ k # ProtoName) => HasOwn(ret, k)

\* a two-line value kept with its line break, ended by a line starting with ">"
C8_Witness ==
    /\ pc = "done"
    /\ \E i \in 1..Len(arg) :
          /\ IsHeaderLine(arg[i])
          /\ ValueStop(arg, i) = i + 3
          /\ ValueStop(arg, i) <= Len(arg)
          /\ arg[i + 3][1] = ">"
          /\ HasOwn(ret, TagNameAt(arg, i))
          /\ \E n \in 1..Len(OwnValue(ret, TagNameAt(arg, i))) :
                OwnValue(ret, TagNameAt(arg, i))[n] = NL

-----------------------------------------------------------------------------
(* SpecSdf: splitSdfBlocks and parseSdf applied to every text of at most    *)
(* MaxSdfLines lines drawn from SdfLines, with "\n" or "\r\n" line ends.    *)

MaxSdfLines == 4

SdfLines ==
    { <<>>,
      <<"a">>,
      <<"b", " ">>,
      <<"$$$$">>,
      <<"$$$$", " ">>,
      <<"$$$$", "a">>,
      <<"M", " ", " ", "END">>,
      <<"m", " ", "end">>,
      <<">", "<", "t", ">">> }

SdfInit ==
    /\ pc = "init"
    /\ \E lines \in SeqsUpTo(SdfLines, MaxSdfLines) : \E eol \in {<<NL>>, <<CR, NL>>} :
          arg = JoinWith(lines, eol)
    /\ ret = [blocks |-> <<>>, records |-> <<>>]
    /\ PageIdle

SdfSplit ==
    /\ pc = "init"
    /\ pc' = "split"
    /\ ret' = [ret EXCEPT !.blocks = splitSdfBlocks(Normalize(arg))]
    /\ UNCHANGED <<arg, uiVars>>

SdfParse ==
    /\ pc = "split"
    /\ pc' = "parsed"
    /\ ret' = [ret EXCEPT !.records = parseSdf(arg)]
    /\ UNCHANGED <<arg, uiVars>>

SdfNext == SdfSplit \/ SdfParse

SpecSdf == SdfInit /\ [][SdfNext]_vars

RECURSIVE SortedSeq(_)
SortedSeq(S) ==
    IF S = {} THEN <<>>
    ELSE LET m == CHOOSE x \in S : \A y \in S : x <= y
         IN  <<m>> \o SortedSeq(S \ {m})

IsDelimiterLine(l) == Trim(l) = <<"$$$$">>

\* the lines of a text between its delimiter lines, before the first and
\* after the last: the raw text of each record, in input order
RawGroups(lines) ==
    LET cuts == SortedSeq({0, Len(lines) + 1}
                          \cup {i \in 1..Len(lines) : IsDelimiterLine(lines[i])})
    IN  [j \in 1..(Len(cuts) - 1) |-> SubSeq(lines, cuts[j] + 1, cuts[j + 1] - 1)]

NonEmpty(s) == s # <<>>

\* C10: the chunks of splitSdfBlocks are, in input order, the trimmed texts
\* between consecutive delimiter lines (lines whose trimmed content is $$$$)
\* and after the last one, without the empty ones; so no chunk is empty, no
\* chunk holds a delimiter line, and text after the last delimiter is a chunk.
C10_SplitSdfBlocks ==
    pc # "init" =>
        LET lines == Split(Normalize(arg))
            groups == RawGroups(lines)
            trimmed == [j \in 1..Len(groups) |-> Trim(Join(groups[j]))]
        IN  /\ ret.blocks = SelectSeq(trimmed, NonEmpty)
            /\ \A b \in 1..Len(ret.blocks) :
                  /\ ret.blocks[b] # <<>>
                  /\ \A l \in 1..Len(Split(ret.blocks[b])) :
                        ~IsDelimiterLine(Split(ret.blocks[b])[l])
            /\ Trim(Join(groups[Len(groups)])) # <<>> =>
                  /\ ret.blocks # <<>>
                  /\ ret.blocks[Len(ret.blocks)] = Trim(Join(groups[Len(groups)]))

\* a text with an empty chunk between two delimiters, a delimiter with
\* trailing white space, and a last record that no delimiter follows
C10_Witness ==
    /\ pc = "split"
    /\ LET lines == Split(Normalize(arg))
           groups == RawGroups(lines)
       IN  /\ Len(groups) >= 3
           /\ \E j \in 1..(Len(groups) - 1) : Trim(Join(groups[j])) = <<>>
           /\ \E i \in 1..Len(lines) : IsDelimiterLine(lines[i]) /\ lines[i] # <<"$$$$">>
           /\ Trim(Join(groups[Len(groups)])) # <<>>
           /\ Len(ret.blocks) >= 1

\* the first terminator line of a record's lines, 0 if it has none
TerminatorIndex(g) ==
    LET S == {i \in 1..Len(g) : IsMEnd(Trim(g[i]))}
    IN  IF S = {} THEN 0 ELSE CHOOSE i \in S : \A j \in S : i <= j

HasTerminator(g) == TerminatorIndex(g) # 0

\* what the record of a group of lines is to be
RecordOf(g) ==
    LET k == TerminatorIndex(g)
    IN  [name |-> Trim(g[1]),
         molblock |-> Join(SubSeq(g, 1, k)) \o <<NL>>,
         tags |-> parseSdTags(SubSeq(g, k + 1, Len(g)))]

\* C9: every record with a terminator line at k has as structureBlock its
\* text verbatim from its first line through line k, newline-terminated, as
\* name its first line trimmed (empty when that line is blank), and as tags
\* those of the lines after k.
C9_ParseSdfRecord ==
    pc = "parsed" =>
        LET groups == SelectSeq(RawGroups(Split(Normalize(arg))), HasTerminator)
        IN  ret.records = [j \in 1..Len(groups) |-> RecordOf(groups[j])]

-----------------------------------------------------------------------------
(* SpecSmiles: molfileToSmiles under every behaviour of the engine.         *)

SmilesInit ==
    /\ pc = "init"
    /\ arg \in [molfile : {<<"mol", NL, "M", " ", "END", NL>>},
                hasSmilesEngine : BOOLEAN,
                ocl : EngineBehaviours]
    /\ ret = <<>>
    /\ PageIdle

SmilesApply ==
    /\ pc = "init"
    /\ pc' = "done"
    /\ ret' = SmilesRun(arg.molfile, arg.hasSmilesEngine, arg.ocl)
    /\ UNCHANGED <<arg, uiVars>>

SmilesNext == SmilesApply

SpecSmiles == SmilesInit /\ [][SmilesNext]_vars

\* the string the method behind a success status generated
GeneratedFor(st, ocl) ==
    CASE st = "OK" -> Generated("toSmiles", ocl.toSmiles)
      [] st = "ISOMERIC_OK" -> Generated("toIsomericSmiles", ocl.isomeric)
      [] st = "KEKULIZED_OK" -> Generated("kekulized", ocl.kekulized)
      [] st = "SMARTS_FALLBACK" -> Generated("smarts", ocl.smarts)

\* C6: a success status comes with the non-empty string its method
\* generated, a failure status with the empty string, and there is no other
\* status.
C6_StatusAndSmiles ==
    pc = "done" =>
        /\ ret.status \in {"OK", "ISOMERIC_OK", "KEKULIZED_OK", "SMARTS_FALLBACK",
                           "PARSE_FAILED", "SMILES_FAILED", "ENGINE_UNAVAILABLE"}
        /\ ret.status \in {"OK", "ISOMERIC_OK", "KEKULIZED_OK", "SMARTS_FALLBACK"} =>
              /\ ret.smiles # <<>>
              /\ ret.smiles = GeneratedFor(ret.status, arg.ocl)
        /\ ret.status \in {"PARSE_FAILED", "SMILES_FAILED", "ENGINE_UNAVAILABLE"} =>
              ret.smiles = <<>>

\* the fallback methods in the order the claim gives them: the call, the
\* outcome the engine has for it, the status of its success
FallbackOrder(ocl) ==
    << [call |-> "toIsomericSmiles", outcome |-> ocl.isomeric,
        status |-> "ISOMERIC_OK", smiles |-> Generated("toIsomericSmiles", ocl.isomeric)],
       [call |-> "toIsomericSmiles(kekulizedOutput)", outcome |-> ocl.kekulized,
        status |-> "KEKULIZED_OK", smiles |-> Generated("kekulized", ocl.kekulized)],
       [call |-> "toIsomericSmiles(createSmarts)", outcome |-> ocl.smarts,
        status |-> "SMARTS_FALLBACK", smiles |-> Generated("smarts", ocl.smarts)] >>

\* the structure parsed: one of the two parsers gave a molecule
StructureParsed(a) ==
    /\ a.hasSmilesEngine
    /\ \/ a.ocl.fromMolfile = "mol"
       \/ a.ocl.sdFileParser = "mol"

\* the engine calls made after the call of the primary method
CallsAfterPrimary(calls) ==
    LET k == CHOOSE i \in 1..Len(calls) : calls[i] = "toSmiles"
    IN  SubSeq(calls, k + 1, Len(calls))

-----------------------------------------------------------------------------
(* SpecParse: the body of a parse (parseSdf, the column union, the rows)    *)
(* on files of at most MaxRecords chunks; a chunk has a name line, has a    *)
(* terminator line or not, and carries at most MaxTags tags.                *)

MaxRecords == 2

MaxTags == 2

ParseTagNames ==
    {"a", "RecordIndex", "SMILES", "constructor",
     "e-acute(U+00E9)", "e-acute(U+0065,U+0301)"}

TagBlock(name) == << <<">", " ", "<", name, ">">>, <<"v", " ", name>>, <<>> >>

RECURSIVE TagBlocks(_)
TagBlocks(names) ==
    IF names = <<>> THEN <<>> ELSE TagBlock(Head(names)) \o TagBlocks(Tail(names))

\* the lines of one chunk and its delimiter
ChunkLines ==
    {<< <<"junk">>, <<"$$$$">> >>}
    \cup {<< <<"mol">>, <<"M", " ", " ", "END">> >> \o TagBlocks(names) \o << <<"$$$$">> >> :
            names \in SeqsUpTo(ParseTagNames, MaxTags)}

RECURSIVE Flatten(_)
Flatten(ss) == IF ss = <<>> THEN <<>> ELSE Head(ss) \o Flatten(Tail(ss))

ParseInit ==
    /\ pc = "init"
    /\ \E chunks \in SeqsUpTo(ChunkLines, MaxRecords) : \E has \in BOOLEAN :
          arg = [text |-> Join(Flatten(chunks)), hasSmilesEngine |-> has]
    /\ ret = [records |-> <<>>, columns |-> <<>>, rows |-> <<>>]
    /\ PageIdle

\* app.js:327
ParseRecords ==
    /\ pc = "init"
    /\ pc' = "records"
    /\ ret' = [ret EXCEPT !.records = parseSdf(arg.text)]
    /\ UNCHANGED <<arg, uiVars>>

\* app.js:328-332
ParseNoRecords ==
    /\ pc = "records"
    /\ ret.records = <<>>
    /\ pc' = "none"
    /\ UNCHANGED <<arg, ret, uiVars>>

\* app.js:334-359
ParseProject ==
    /\ pc = "records"
    /\ ret.records # <<>>
    /\ pc' = "rows"
    /\ \E results \in [1..Len(ret.records) -> SmilesResults(arg.hasSmilesEngine)] :
          LET tagColumns == tagColumnsOf(ret.records)
          IN  ret' = [ret EXCEPT !.columns = columnsOf(tagColumns),
                                 !.rows = rowsOf(ret.records, tagColumns, results)]
    /\ UNCHANGED <<arg, uiVars>>

ParseNext == ParseRecords \/ ParseNoRecords \/ ParseProject

SpecParse == ParseInit /\ [][ParseNext]_vars

\* the number of non-empty chunks of a text that contain a terminator line
ValidChunkCount(text) ==
    LET chunks == splitSdfBlocks(Normalize(text))
    IN  Cardinality({c \in 1..Len(chunks) : TerminatorIndex(Split(chunks[c])) # 0})

\* C1: the rows of a parse carry RecordIndex 1, 2, ..., N in row order, N
\* being the number of non-empty chunks with a terminator line, whatever the
\* tag names and whatever the engine did.
C1_RecordIndexContiguous ==
    pc = "rows" =>
        /\ Len(ret.rows) = ValidChunkCount(arg.text)
        /\ \A i \in 1..Len(ret.rows) : ret.rows[i][<<"RecordIndex">>] = NumVal(i)

Range(s) == {s[i] : i \in 1..Len(s)}

\* the value a row is to hold in the column of tag c
OwnTagValue(rec, c) ==
    IF HasOwn(rec.tags, c) THEN StrVal(OwnValue(rec.tags, c)) ELSE StrVal(<<>>)

\* C2: every row has exactly the columns of the column set as keys, and in
\* each tag column the record's own value for the tag, or the empty string
\* when the record has no such tag.
C2_RowsRectangular ==
    pc = "rows" =>
        \A i \in 1..Len(ret.rows) :
            /\ DOMAIN ret.rows[i] = Range(ret.columns)
            /\ \A c \in 5..Len(ret.columns) :
                  ret.rows[i][ret.columns[c]] = OwnTagValue(ret.records[i], ret.columns[c])

PermutationsOf(n) == {p \in [1..n -> 1..n] : \A i, j \in 1..n : p[i] = p[j] => i = j}

TagNamesOf(records) == UNION {Range(ObjKeys(records[i].tags)) : i \in 1..Len(records)}

\* C3: the columns are the four fixed ones and then the tag names of all
\* records, each once, in ascending order, and every permutation of the
\* records gives the same columns.
C3_ColumnsSortedUnion ==
    pc = "rows" =>
        LET n == Len(ret.columns)
            tagCols == SubSeq(ret.columns, 5, n)
        IN  /\ n >= 4
            /\ SubSeq(ret.columns, 1, 4) = FixedColumns
            /\ Range(tagCols) = TagNamesOf(ret.records)
            /\ \A i, j \in 1..Len(tagCols) : tagCols[i] = tagCols[j] => i = j
            /\ \A i, j \in 1..Len(tagCols) : i < j => localeCompare(tagCols[i], tagCols[j]) <= 0
            /\ \A p \in PermutationsOf(Len(ret.records)) :
                  columnsOf(tagColumnsOf([i \in 1..Len(ret.records) |-> ret.records[p[i]]]))
                      = ret.columns

\* C5: without the engine every row has SMILES "" and SMILES_Status
\* ENGINE_UNAVAILABLE, and every tag column holds the record's tag value, or
\* "" when the record lacks the tag.
C5_EngineUnavailableRows ==
    pc = "rows" /\ ~arg.hasSmilesEngine =>
        \A i \in 1..Len(ret.rows) :
            /\ ret.rows[i][<<"SMILES">>] = StrVal(<<>>)
            /\ ret.rows[i][<<"SMILES_Status">>] = StrVal(<<"ENGINE_UNAVAILABLE">>)
            /\ \A c \in 5..Len(ret.columns) :
                  ret.rows[i][ret.columns[c]] = OwnTagValue(ret.records[i], ret.columns[c])

-----------------------------------------------------------------------------
(* SpecCsv: buildCsv on tables of two columns and two rows.  One cell, or    *)
(* the first column's name (row 0), is any string of at most MaxFieldLen    *)
(* tokens over CsvTokens; the other cells hold one value of OtherValues,    *)
(* and with the undefined one the rows lack the second column's key.        *)

MaxFieldLen == 3

CsvTokens == {"a", ",", DQ, NL}

OtherValues ==
    {StrVal(<<>>), StrVal(<<"a", " ">>), StrVal(<<DQ, ",">>), NumVal(12), InheritedVal, Undefined}

CsvTable(where, p, o) ==
    LET c1 == IF where = <<0, 1>> THEN p ELSE <<"h">>
        c2 == <<"k">>
        cell(r, c) == IF where = <<r, c>> THEN StrVal(p) ELSE o
        row(r) == IF o = Undefined
                  THEN [x \in {c1} |-> cell(r, 1)]
                  ELSE [x \in {c1, c2} |-> IF x = c1 THEN cell(r, 1) ELSE cell(r, 2)]
    IN  [columns |-> <<c1, c2>>, rows |-> <<row(1), row(2)>>]

CsvInit ==
    /\ pc = "init"
    /\ \E where \in {<<0, 1>>, <<1, 1>>, <<1, 2>>, <<2, 2>>} :
       \E p \in SeqsUpTo(CsvTokens, MaxFieldLen) :
       \E o \in OtherValues :
          arg = CsvTable(where, p, o)
    /\ ret = <<>>
    /\ PageIdle

CsvApply ==
    /\ pc = "init"
    /\ pc' = "done"
    /\ ret' = buildCsv(arg.rows, arg.columns)
    /\ UNCHANGED <<arg, uiVars>>

CsvNext == CsvApply

SpecCsv == CsvInit /\ [][CsvNext]_vars

\* A reader of the declared format: fields separated by ",", records ended
\* by newline, a field that starts with a double quote runs to the next
\* double quote that is not doubled, and a doubled one stands for one.
\* mode: "record" at the start of a record, "field" at the start of a later
\* field, "plain" in an unquoted field, "quoted" in a quoted one, "quote"
\* after a double quote inside a quoted field.
RECURSIVE ReadCsv(_, _, _, _, _, _)
ReadCsv(s, i, mode, field, record, out) ==
    IF i > Len(s)
    THEN IF mode = "record" THEN out ELSE Append(out, Append(record, field))
    ELSE LET c == s[i]
         IN  IF mode = "quoted"
             THEN IF c = DQ THEN ReadCsv(s, i + 1, "quote", field, record, out)
                  ELSE ReadCsv(s, i + 1, "quoted", Append(field, c), record, out)
             ELSE IF c = DQ /\ mode \in {"record", "field"}
             THEN ReadCsv(s, i + 1, "quoted", field, record, out)
             ELSE IF c = DQ /\ mode = "quote"
             THEN ReadCsv(s, i + 1, "quoted", Append(field, c), record, out)
             ELSE IF c = ","
             THEN ReadCsv(s, i + 1, "field", <<>>, Append(record, field), out)
             ELSE IF c = NL
             THEN ReadCsv(s, i + 1, "record", <<>>, <<>>, Append(out, Append(record, field)))
             ELSE ReadCsv(s, i + 1, "plain", Append(field, c), record, out)

\* the string a cell is to come back as
CellString(row, c) ==
    IF c \in DOMAIN row /\ row[c] # Undefined THEN StringOf(row[c])
    ELSE IF c \notin DOMAIN row /\ c \in InheritedNames THEN StringOf(InheritedVal)
    ELSE <<>>

\* a field as the format writes it
Written(str) ==
    IF \E i \in 1..Len(str) : str[i] = "," \/ str[i] = DQ \/ str[i] = NL
    THEN <<DQ>> \o Flatten([i \in 1..Len(str) |-> IF str[i] = DQ THEN <<DQ, DQ>> ELSE <<str[i]>>])
              \o <<DQ>>
    ELSE str

\* C4: the CSV text is the header line and one line per row, each the fields
\* joined by commas and ended by a newline, a field being quoted with its
\* quotes doubled exactly when it holds a comma, a double quote or a newline
\* and verbatim otherwise; and reading the text back gives the column names
\* and, per row and column, the original value as a string.
C4_CsvRoundTrip ==
    pc = "done" =>
        LET cols == arg.columns
            table == <<cols>> \o [r \in 1..Len(arg.rows) |->
                                     [c \in 1..Len(cols) |-> CellString(arg.rows[r], cols[c])]]
        IN  /\ ret = Flatten([r \in 1..Len(table) |->
                                 JoinWith([c \in 1..Len(cols) |-> Written(table[r][c])], <<",">>)
                                     \o <<NL>>])
            /\ ReadCsv(ret, 1, "record", <<>>, <<>>, <<>>) = table

\* a cell that holds a comma, a double quote and a newline came back intact,
\* next to a number
C4_Witness ==
    /\ pc = "done"
    /\ arg.rows[1][arg.columns[1]] = StrVal(<<DQ, NL, ",">>)
    /\ arg.rows[1][arg.columns[2]] = NumVal(12)
    /\ ReadCsv(ret, 1, "record", <<>>, <<>>, <<>>)[2] = <<<<DQ, NL, ",">>, <<"1", "2">>>>

-----------------------------------------------------------------------------
(* Spec: the page.  The user selects or drops a file, toggles the fallback  *)
(* checkbox, clicks Parse and clicks Download, in any order; a parse-click  *)
(* handler is suspended at `await ensureSmilesEngine()` and at              *)
(* `await readSdfText(currentFile)`, and suspended handlers resume in any   *)
(* order.  At most MaxHandlers handlers are suspended at a time.            *)

MaxHandlers == 2

\* the preview shows at most this many rows (Math.min(rows.length, 100))
PreviewLimit == 100

Files == {"empty.sdf", "one.sdf", "two.sdf"}

\* what file.text() gives
FileText(f) ==
    CASE f = "empty.sdf" -> Join(<< <<"junk">>, <<"$$$$">> >>)
      [] f = "one.sdf" ->
            Join(<< <<"mol">>, <<"M", " ", " ", "END">> >> \o TagBlock("a") \o << <<"$$$$">> >>)
      [] f = "two.sdf" ->
            Join(<< <<"mol">>, <<"M", " ", " ", "END">> >> \o TagBlock("a") \o << <<"$$$$">> >>
                 \o << <<"mol2">>, <<"M", " ", " ", "END">> >> \o TagBlock("b"))

\* name.replace(/\.(sdf|sd)(\.gz)?$/i, "").replace(/\.gz$/i, "") of currentFile?.name || "output"
FileBase(f) ==
    CASE f = NoFile -> "output"
      [] f = "empty.sdf" -> "empty"
      [] f = "one.sdf" -> "one"
      [] f = "two.sdf" -> "two"

\* the engine, once loaded, converts every structure of these files
PageOcl ==
    [fromMolfile |-> "mol", sdFileParser |-> "mol", toSmiles |-> "string",
     isomeric |-> "string", kekulized |-> "string", smarts |-> "string"]

Min(a, b) == IF a < b THEN a ELSE b

\* renderPreview(rows, columns): the rows shown
renderPreview(rows, columns) ==
    IF rows = <<>> \/ columns = <<>> THEN <<>>
    ELSE SubSeq(rows, 1, Min(Len(rows), PreviewLimit))

\* app.js:327-356 for the text of a file: the records, the columns and the rows
ParseBody(text, hasSmilesEngine) ==
    LET records == parseSdf(text)
        tagColumns == tagColumnsOf(records)
    IN  [records |-> records,
         columns |-> columnsOf(tagColumns),
         rows |-> rowsOf(records, tagColumns,
                         [r \in 1..Len(records) |->
                             molfileToSmiles(records[r].molblock, hasSmilesEngine, PageOcl)])]

\* ParseBody of each file, with and without the engine
ParseOf == [f \in Files |-> [has \in BOOLEAN |-> ParseBody(FileText(f), has)]]

Init ==
    /\ pc = "page"
    /\ arg = <<>>
    /\ ret = <<>>
    /\ UiInit

\* setCurrentFile(file)
setCurrentFile(file) ==
    /\ currentFile' = file
    /\ parsedRows' = <<>>
    /\ parsedColumns' = <<>>
    /\ downloadDisabled' = TRUE
    /\ preview' = renderPreview(<<>>, <<>>)
    /\ status' = IF file = NoFile THEN <<"No file selected.", FALSE>>
                 ELSE <<"Selected", FALSE>>
    /\ UNCHANGED <<pc, arg, ret, windowOCL, fallbackChecked, handlers, downloaded>>

\* fileInput "change": the chosen file, or none
FileInputChange == \E file \in Files \cup {NoFile} : setCurrentFile(file)

\* dropZone "drop" with a file
Drop == \E file \in Files : setCurrentFile(file)

ToggleFallback ==
    /\ fallbackChecked' = ~fallbackChecked
    /\ UNCHANGED <<pc, arg, ret, currentFile, parsedRows, parsedColumns, downloadDisabled,
                   status, preview, windowOCL, handlers, downloaded>>

Without(s, i) == SubSeq(s, 1, i - 1) \o SubSeq(s, i + 1, Len(s))

Suspended(at, file, has, allow) ==
    [at |-> at, file |-> file, hasSmilesEngine |-> has, allowFallback |-> allow]

\* parseBtn "click" with no file (app.js:301-304)
ParseClickNoFile ==
    /\ currentFile = NoFile
    /\ status' = <<"Select or drop an SDF file first.", TRUE>>
    /\ UNCHANGED <<pc, arg, ret, currentFile, parsedRows, parsedColumns, downloadDisabled,
                   preview, windowOCL, fallbackChecked, handlers, downloaded>>

\* parseBtn "click" with a file, up to its first await (app.js:306-323)
ParseClick ==
    /\ currentFile # NoFile
    /\ Len(handlers) < MaxHandlers
    /\ IF windowOCL
       THEN /\ status' = <<"Parsing file...", FALSE>>
            /\ downloadDisabled' = TRUE
            /\ handlers' = Append(handlers, Suspended("readSdfText", currentFile, TRUE, fallbackChecked))
       ELSE /\ status' = <<"Loading SMILES engine...", FALSE>>
            /\ downloadDisabled' = downloadDisabled
            /\ handlers' = Append(handlers, Suspended("ensureSmilesEngine", NoFile, FALSE, fallbackChecked))
    /\ UNCHANGED <<pc, arg, ret, currentFile, parsedRows, parsedColumns,
                   preview, windowOCL, fallbackChecked, downloaded>>

\* a handler resumes from `await ensureSmilesEngine()` (app.js:311-323):
\* the engine was loaded, or every source failed
EngineResume ==
    \E i \in 1..Len(handlers) : \E loaded \in BOOLEAN :
        LET h == handlers[i]
        IN  /\ h.at = "ensureSmilesEngine"
            /\ windowOCL' = (windowOCL \/ loaded)
            /\ IF ~loaded /\ ~h.allowFallback
               THEN /\ status' = <<"SMILES engine unavailable.", TRUE>>
                    /\ handlers' = Without(handlers, i)
                    /\ UNCHANGED <<downloadDisabled, preview>>
               ELSE /\ downloadDisabled' = TRUE
                    /\ IF currentFile = NoFile
                       THEN \* readSdfText(null) rejects: the catch block
                            /\ status' = <<"Parse failed", TRUE>>
                            /\ preview' = renderPreview(<<>>, <<>>)
                            /\ handlers' = Without(handlers, i)
                       ELSE /\ status' = <<"Parsing file...", FALSE>>
                            /\ preview' = preview
                            /\ handlers' = [handlers EXCEPT ![i] =
                                   Suspended("readSdfText", currentFile, loaded, h.allowFallback)]
            /\ UNCHANGED <<pc, arg, ret, currentFile, parsedRows, parsedColumns,
                           fallbackChecked, downloaded>>

\* a handler resumes from `await readSdfText(currentFile)` and runs to its
\* end (app.js:323-380): the read failed, or gave the file's text
ReadResume ==
    \E i \in 1..Len(handlers) : \E readOk \in BOOLEAN :
        LET h == handlers[i]
            parsed == ParseOf[h.file][h.hasSmilesEngine]
            records == parsed.records
            columns == parsed.columns
            rows == parsed.rows
        IN  /\ h.at = "readSdfText"
            /\ handlers' = Without(handlers, i)
            /\ IF ~readOk \/ currentFile = NoFile
               THEN \* readSdfText rejected, or currentFile.name threw: the catch block
                    /\ status' = <<"Parse failed", TRUE>>
                    /\ preview' = renderPreview(<<>>, <<>>)
                    /\ UNCHANGED <<parsedRows, parsedColumns, downloadDisabled>>
               ELSE IF records = <<>>
               THEN /\ status' = <<"No valid molecule records found.", TRUE>>
                    /\ preview' = renderPreview(<<>>, <<>>)
                    /\ UNCHANGED <<parsedRows, parsedColumns, downloadDisabled>>
               ELSE /\ parsedRows' = rows
                    /\ parsedColumns' = columns
                    /\ preview' = renderPreview(rows, columns)
                    /\ status' = IF h.hasSmilesEngine THEN <<"parsed, SMILES generated", FALSE>>
                                 ELSE <<"parsed, exported without SMILES", FALSE>>
                    /\ downloadDisabled' = FALSE
            /\ UNCHANGED <<pc, arg, ret, currentFile, windowOCL, fallbackChecked, downloaded>>

\* downloadBtn "click" (app.js:383-399); a disabled button gets no click
DownloadClick ==
    /\ ~downloadDisabled
    /\ IF parsedRows = <<>> THEN downloaded' = downloaded
       ELSE downloaded' = <<[name |-> FileBase(currentFile),
                             csv |-> buildCsv(parsedRows, parsedColumns)]>>
    /\ UNCHANGED <<pc, arg, ret, currentFile, parsedRows, parsedColumns, downloadDisabled,
                   status, preview, windowOCL, fallbackChecked, handlers>>

Next ==
    \/ FileInputChange
    \/ Drop
    \/ ToggleFallback
    \/ ParseClickNoFile
    \/ ParseClick
    \/ EngineResume
    \/ ReadResume
    \/ DownloadClick

Spec == Init /\ [][Next]_vars

\* C7: when a parse has found no valid record (the page shows that error),
\* the preview is empty and the download button is disabled, so that a
\* download click cannot build a CSV, whatever events came before.
C7_ZeroRecordsNoOutput ==
    status = <<"No valid molecule records found.", TRUE>> =>
        /\ status[2]
        /\ preview = <<>>
        /\ downloadDisabled

\* the result of parsing file f is what the page holds
HoldsParseOf(f, rows, columns) ==
    /\ f \in Files
    /\ \E has \in BOOLEAN :
          /\ ParseOf[f][has].records # <<>>
          /\ rows = ParseOf[f][has].rows
          /\ columns = ParseOf[f][has].columns

\* C12: whenever the download button is enabled, parsedRows and
\* parsedColumns are the non-empty result of parsing the selected file, and
\* a downloaded CSV carries the name of the file whose rows it was built
\* from, whatever the interleaving of file selections with suspended parse
\* handlers.
C12_DownloadMatchesCurrentFile ==
    /\ ~downloadDisabled =>
          /\ parsedRows # <<>>
          /\ HoldsParseOf(currentFile, parsedRows, parsedColumns)
    /\ \A d \in 1..Len(downloaded) :
          \E f \in Files : \E has \in BOOLEAN :
              /\ downloaded[d].name = FileBase(f)
              /\ downloaded[d].csv = buildCsv(ParseOf[f][has].rows, ParseOf[f][has].columns)

====
